---- MODULE Spec2Model ----
(***************************************************************************)
(* Model of the markdown language server of note-ls                        *)
(* (language-server/src/main.rs): the document store `files`, the active   *)
(* document pointer `current_file`, the preview transport and the LSP      *)
(* handlers initialize, did_open, did_change, did_close, completion and    *)
(* goto_definition.                                                        *)
(*                                                                         *)
(* Every handler is an async fn run as one task.  A task can be suspended  *)
(* only at an `.await`; the code between two awaits is one atomic step of  *)
(* the model.  The tokio mutex guards bound with `let` live to the end of  *)
(* the handler body, the guard of a temporary (`x.lock().await.f()`) only  *)
(* to the end of its statement.  A panic (`expect`, `debug_assert!`, a     *)
(* slice out of range) unwinds out of the handler; nothing in the server   *)
(* catches it, so the serving task ends with it.                           *)
(*                                                                         *)
(* Four specifications share the handlers: Spec runs the document          *)
(* handlers and completion concurrently on small inputs, SerialSpec runs   *)
(* every handler alone on richer documents, Urls and positions, LockSpec   *)
(* runs the handlers that take locks concurrently under the fairness of    *)
(* the runtime, and ContentsSpec runs the helper                           *)
(* get_current_file_contents beside them.                                  *)
(***************************************************************************)
EXTENDS Integers, Sequences, FiniteSets, TLC

\* ---------------------------------------------------------------- bounds

\* number of handler tasks that can be in flight at once
NumTasks == 2

\* longest content_changes batch of a did_change notification
MaxBatch == 2

\* most store mutations (= preview pushes) of one run
MaxSent == 3

\* largest line index and largest character offset of a completion request
MaxLine == 0

MaxChar == 2

\* ------------------------------------------------------- values and text

Tasks == 1..NumTasks

NoTask == 0

\* Option<T>: None is the empty set, Some(x) the singleton
None == {}

Some(x) == {x}

\* A file name is the sequence of its chars.
a_md == <<"a", ".", "m", "d">>

b_txt == <<"b", ".", "t", "x", "t">>

d_md == <<"d", ".", "m", "d">>

e_md == <<"e", ".", "m", "d">>

f_md == <<"f", ".", "m", "d">>

p_dir == <<"p">>

\* A Url is modelled by the file names of its path: <<>> is "file:///",
\* <<a_md>> is "file:///a.md".
Uris == {<<>>, <<a_md>>}

\* A String is the sequence of its chars.
Texts == {<<>>, <<"[", "[">>}

\* char::len_utf8
len_utf8(c) == IF c = "é" THEN 2 ELSE 1

\* char::is_whitespace
is_whitespace(c) == c \in {" ", "\t", "\n"}

\* str::len: the length in bytes
RECURSIVE byte_len(_)
byte_len(s) == IF s = <<>> THEN 0 ELSE len_utf8(Head(s)) + byte_len(Tail(s))

\* the number of leading chars of s that make up exactly b bytes, or -1
\* when b is past the end of s or inside a char (str::is_char_boundary)
char_boundary(s, b) ==
    LET ks == {k \in 0..Len(s) : byte_len(SubSeq(s, 1, k)) = b}
    IN  IF ks = {} THEN -1 ELSE CHOOSE k \in ks : TRUE

\* the pieces of s between its "\n" chars
RECURSIVE split_newline(_)
split_newline(s) ==
    IF \A i \in 1..Len(s) : s[i] # "\n"
    THEN <<s>>
    ELSE LET i == CHOOSE j \in 1..Len(s) :
                      s[j] = "\n" /\ \A k \in 1..(j - 1) : s[k] # "\n"
         IN  <<SubSeq(s, 1, i - 1)>> \o split_newline(SubSeq(s, i + 1, Len(s)))

\* str::lines: the final line ending is optional, so a trailing empty piece
\* is no line ("\r\n" endings are not modelled: the texts hold no "\r")
lines(s) ==
    LET pieces == split_newline(s)
    IN  IF pieces[Len(pieces)] = <<>>
        THEN SubSeq(pieces, 1, Len(pieces) - 1)
        ELSE pieces

\* the trailing chars of s that are not whitespace:
\* chars().rev().take_while(|c| !c.is_whitespace()).count()
RECURSIVE take_while_rev(_)
take_while_rev(s) ==
    IF s = <<>> \/ is_whitespace(s[Len(s)])
    THEN 0
    ELSE 1 + take_while_rev(SubSeq(s, 1, Len(s) - 1))

\* get_current_word: [tag |-> "None"], [tag |-> "Some", word |-> w], or
\* [tag |-> "panic"] when one of the two slices is out of range or not on a
\* char boundary.  `character` is used as a byte offset, `backwards_chars`
\* is a count of chars.
get_current_word(document, line, character) ==
    LET ls == lines(document)
    IN  IF line >= Len(ls)
        THEN [tag |-> "None"]
        ELSE LET l    == ls[line + 1]
                 kEnd == char_boundary(l, character)
             IN  IF kEnd = -1
                 THEN [tag |-> "panic"]
                 ELSE LET backwards_chars == take_while_rev(SubSeq(l, 1, kEnd))
                          start_word      == character - backwards_chars
                          kStart          == char_boundary(l, start_word)
                      IN  IF start_word < 0 \/ kStart = -1
                          THEN [tag |-> "panic"]
                          ELSE [tag |-> "Some",
                                word |-> SubSeq(l, kStart + 1, kEnd)]

\* current_word.starts_with("[[") && !current_word.ends_with(']')
trigger(word) ==
    /\ Len(word) >= 2 /\ word[1] = "[" /\ word[2] = "["
    /\ ~(Len(word) >= 1 /\ word[Len(word)] = "]")

\* Path::parent of the Url's path: None for the root
path_parent(uri) ==
    IF uri = <<>> THEN None ELSE Some(SubSeq(uri, 1, Len(uri) - 1))

\* Path::extension of a file name: the chars after its last ".", None when
\* it has no "." or only the one it starts with
extension(name) ==
    LET dots == {i \in 1..Len(name) : name[i] = "."}
        last_dot == CHOOSE i \in dots : \A j \in dots : j <= i
    IN  IF dots = {} \/ last_dot = 1
        THEN None
        ELSE Some(SubSeq(name, last_dot + 1, Len(name)))

\* the extension of a path is the extension of its last name; the root has
\* no file name
path_extension(path) ==
    IF path = <<>> THEN None ELSE extension(path[Len(path)])

\* Path::strip_prefix
strip_prefix(path, base) == SubSeq(path, Len(base) + 1, Len(path))

\* Path::starts_with
starts_with(path, base) ==
    Len(base) <= Len(path) /\ SubSeq(path, 1, Len(base)) = base

\* The file system the server runs on: the root directory with the files
\* a.md and b.txt, the directory d.md with the file e.md, and the directory
\* p, which cannot be read, with the file f.md.
Disk ==
    { [path |-> <<>>,            is_dir |-> TRUE,  readable |-> TRUE],
      [path |-> <<a_md>>,        is_dir |-> FALSE, readable |-> TRUE],
      [path |-> <<b_txt>>,       is_dir |-> FALSE, readable |-> TRUE],
      [path |-> <<d_md>>,        is_dir |-> TRUE,  readable |-> TRUE],
      [path |-> <<d_md, e_md>>,  is_dir |-> FALSE, readable |-> TRUE],
      [path |-> <<p_dir>>,       is_dir |-> TRUE,  readable |-> FALSE],
      [path |-> <<p_dir, f_md>>, is_dir |-> FALSE, readable |-> TRUE] }

\* the directories read_dir can list
ReadableDirs == {e.path : e \in {x \in Disk : x.is_dir /\ x.readable}}

\* WalkDir::new(root).into_iter().filter_map(|e| e.ok()): the root and what
\* is found below it by listing directories; a directory that cannot be
\* listed is an entry itself, its listing is an Err and is dropped; links
\* are not followed
WalkDir(root) ==
    { e \in Disk :
         /\ starts_with(e.path, root)
         /\ \A n \in Len(root)..(Len(e.path) - 1) :
                SubSeq(e.path, 1, n) \in ReadableDirs }

\* the items of the completion list: the entries with extension "md", each
\* labelled with its path below path_parent, of kind FILE
completion_items(parent) ==
    { [label |-> strip_prefix(e.path, parent), kind |-> "FILE"] :
         e \in {x \in WalkDir(parent) : path_extension(x.path) = Some(<<"m", "d">>)} }

\* CompletionResponse::List(CompletionList { is_incomplete: false, items })
CompletionList(items) == [is_incomplete |-> FALSE, items |-> items]

\* ------------------------------------------------------------ the store

\* Files is the HashMap<Url, File>, modelled by a function from the Urls
\* present to their content.
EmptyFiles == [u \in {} |-> <<>>]

\* Files::get_file
get_file(fs, uri) == IF uri \in DOMAIN fs THEN Some(fs[uri]) ELSE None

\* a get_file_mut that finds an empty file where there is none
get_file_mut_or_default(fs, uri) ==
    IF uri \in DOMAIN fs THEN Some(fs[uri]) ELSE Some(<<>>)

\* Files::get_file_mut
get_file_mut(fs, uri) == IF uri \in DOMAIN fs THEN Some(fs[uri]) ELSE None

\* an add_file that keeps the entry a Url already has
add_file_or_insert(fs, uri, content) ==
    [u \in (DOMAIN fs) \cup {uri} |-> IF u \in DOMAIN fs THEN fs[u] ELSE content]

\* Files::add_file: HashMap::insert
add_file(fs, uri, content) ==
    [u \in (DOMAIN fs) \cup {uri} |-> IF u = uri THEN content ELSE fs[u]]

\* File::overwrite on the entry get_file_mut found
overwrite(fs, uri, new_content) ==
    [u \in DOMAIN fs |-> IF u = uri THEN new_content ELSE fs[u]]

\* a remove_file that removes nothing
remove_file_noop(fs, uri) == fs

\* a remove_file that empties the map
remove_file_clear(fs, uri) == [u \in {} |-> <<>>]

\* Files::remove_file: HashMap::remove
remove_file(fs, uri) == [u \in (DOMAIN fs) \ {uri} |-> fs[u]]

\* ------------------------------------------------------------- the state

VARIABLES
    files,              \* MarkdownLanguageServer.files: the HashMap of Files
    current_file,       \* MarkdownLanguageServer.current_file: Option<Url>
    sent,               \* the texts aurelius::Server::send accepted, in order
    files_lock,         \* the task holding the `files` mutex, or NoTask
    current_file_lock,  \* the task holding the `current_file` mutex, or NoTask
    pc,                 \* per task: the await it is suspended at
    request,            \* per task: the parameters of the call it handles
    panicked,           \* a handler panicked: the serving task is gone
    debug_assertions,   \* cfg(debug_assertions) of the build
    last,               \* history: the handler that started to act last
                        \* (locked `files`, or panicked before it could),
                        \* the state it found, its outcome, the word it
                        \* logged and the list it returned
    accepted,           \* history: the store mutations of did_open/did_change
    closed_after_set    \* history: did_close(current_file) ran since its set

vars == <<files, current_file, sent, files_lock, current_file_lock, pc,
          request, panicked, debug_assertions, last, accepted,
          closed_after_set>>

NoRequest == [kind |-> "none", uri |-> <<>>, text |-> <<>>,
              content_changes |-> <<>>, line |-> 0, character |-> 0]

\* DidOpenTextDocumentParams: text_document.uri, text_document.text
DidOpenTextDocumentParams(uri, text) ==
    [NoRequest EXCEPT !.kind = "did_open", !.uri = uri, !.text = text]

\* DidChangeTextDocumentParams: text_document.uri and the full texts of
\* content_changes
DidChangeTextDocumentParams(uri, content_changes) ==
    [NoRequest EXCEPT !.kind = "did_change", !.uri = uri,
                      !.content_changes = content_changes]

\* DidCloseTextDocumentParams: text_document.uri
DidCloseTextDocumentParams(uri) ==
    [NoRequest EXCEPT !.kind = "did_close", !.uri = uri]

\* CompletionParams: text_document_position
CompletionParams(uri, line, character) ==
    [NoRequest EXCEPT !.kind = "completion", !.uri = uri, !.line = line,
                      !.character = character]

\* InitializeParams: not read by the handler
InitializeParams == [NoRequest EXCEPT !.kind = "initialize"]

\* GotoDefinitionParams: not read by the handler
GotoDefinitionParams == [NoRequest EXCEPT !.kind = "goto_definition"]

\* the call of MarkdownLanguageServer::new, which takes the Client only
NewCall == [NoRequest EXCEPT !.kind = "new"]

\* the batches a client can send: any number of full texts up to MaxBatch
Batches == UNION {[1..n -> Texts] : n \in 0..MaxBatch}

\* what `last` records when a handler of `params` starts to act
Snapshot(params) == [request |-> params, files |-> files,
                     current_file |-> current_file, sent |-> sent,
                     outcome |-> "running", log |-> None,
                     response |-> None]

\* MarkdownLanguageServer::new: aurelius::Server::bind is unwrapped with
\* expect, so without the preview transport the process ends in `new`;
\* with it the store is empty and the pointer is none
Init ==
    /\ files = EmptyFiles
    /\ current_file = None
    /\ sent = <<>>
    /\ files_lock = NoTask
    /\ current_file_lock = NoTask
    /\ pc = [t \in Tasks |-> "idle"]
    /\ request = [t \in Tasks |-> NoRequest]
    /\ debug_assertions \in BOOLEAN
    /\ \E bind_ok \in BOOLEAN :
          /\ panicked = ~bind_ok
          /\ last = [request |-> NewCall, files |-> EmptyFiles,
                     current_file |-> None, sent |-> <<>>,
                     outcome |-> IF bind_ok THEN "ok" ELSE "panic",
                     log |-> None, response |-> None]
    /\ accepted = <<>>
    /\ closed_after_set = FALSE

\* a task can take a new call when it handles none
Free(t) == ~panicked /\ pc[t] = "idle"

\* the did_open/did_change calls that have not reached the store yet
Pending == {t \in Tasks : /\ pc[t] = "files_lock"
                          /\ request[t].kind \in {"did_open", "did_change"}}

\* the run is cut off after MaxSent store mutations
Room == Len(accepted) + Cardinality(Pending) < MaxSent

\* the handler ends with `outcome`: its guards are dropped; `found` is what
\* `last` recorded when the handler started to act
End(t, found, outcome) ==
    /\ pc' = [pc EXCEPT ![t] = "idle"]
    /\ request' = [request EXCEPT ![t] = NoRequest]
    /\ last' = [found EXCEPT !.outcome = outcome]
    /\ files_lock' = IF files_lock = t THEN NoTask ELSE files_lock
    /\ current_file_lock' =
           IF current_file_lock = t THEN NoTask ELSE current_file_lock

\* the handler returns: the response is sent
Return(t, found, outcome) ==
    /\ End(t, found, outcome)
    /\ UNCHANGED panicked

\* the handler panics: unwinding drops its guards (tokio mutexes are not
\* poisoned) and ends the task that serves every request
Panic(t, found) ==
    /\ End(t, found, "panic")
    /\ panicked' = TRUE

\* the handler is called with `params` and runs to `self.files.lock().await`
Call(t, params) ==
    /\ pc' = [pc EXCEPT ![t] = "files_lock"]
    /\ request' = [request EXCEPT ![t] = params]
    /\ UNCHANGED <<files_lock, current_file_lock, panicked, last>>

\* the handler is suspended at the await `at`, holding what it holds
Suspend(t, at) ==
    /\ pc' = [pc EXCEPT ![t] = at]
    /\ UNCHANGED <<request, panicked>>

\* a send that skips a text equal to the one sent last
send_dedup(text, ok) ==
    IF ok /\ ~(sent # <<>> /\ sent[Len(sent)] = text)
    THEN Append(sent, text) ELSE sent

\* a send that passes no empty text on
send_nonempty(text, ok) ==
    IF ok /\ text # <<>> THEN Append(sent, text) ELSE sent

\* aurelius::Server::send(text): Ok appends the text to what the preview
\* shows, Err (the renderer could not run) leaves it as it was
send(text, ok) == IF ok THEN Append(sent, text) ELSE sent

\* --------------------------------------------------------------- did_open

\* a guard that is a temporary: dropped at the end of its statement
did_open_state_temporary(t) == NoTask

\* `let mut state = self.files.lock().await;`: the guard is bound to a
\* variable of the handler body, so the task keeps the lock until it returns
did_open_state(t) == t

\* a set that keeps the Url the pointer already holds
set_current_file_if_none(uri) ==
    IF current_file = None THEN Some(uri) ELSE current_file

\* `*current_file = Some(request.text_document.uri);`
set_current_file(uri) == Some(uri)

\* did_open is called
did_open_call(t, uri, text) ==
    /\ Free(t) /\ Room
    /\ Call(t, DidOpenTextDocumentParams(uri, text))
    /\ UNCHANGED <<files, current_file, sent, debug_assertions, accepted,
                   last, closed_after_set>>

\* `files` is locked and add_file runs; next await: current_file.lock()
did_open_add_file(t) ==
    /\ ~panicked /\ pc[t] = "files_lock" /\ request[t].kind = "did_open"
    /\ files_lock = NoTask
    /\ files_lock' = did_open_state(t)
    /\ files' = add_file(files, request[t].uri, request[t].text)
    /\ Suspend(t, "current_file_lock")
    /\ accepted' = Append(accepted, [kind |-> "did_open",
                                     uri |-> request[t].uri,
                                     text |-> request[t].text])
    /\ last' = Snapshot(request[t])
    /\ UNCHANGED <<current_file, sent, current_file_lock, debug_assertions,
                   closed_after_set>>

\* `current_file` is locked and set; next await: preview_server.lock()
did_open_set_current(t) ==
    /\ ~panicked /\ pc[t] = "current_file_lock" /\ request[t].kind = "did_open"
    /\ current_file_lock = NoTask
    /\ current_file_lock' = t
    /\ current_file' = set_current_file(request[t].uri)
    /\ Suspend(t, "preview_lock")
    /\ closed_after_set' = FALSE
    /\ UNCHANGED <<files, sent, files_lock, debug_assertions, accepted, last>>

\* the preview is locked for the statement, the text is sent, the result is
\* unwrapped with expect, and the handler returns
did_open_send(t) ==
    /\ ~panicked /\ pc[t] = "preview_lock" /\ request[t].kind = "did_open"
    /\ \E ok \in BOOLEAN :
          /\ sent' = send(request[t].text, ok)
          /\ IF ok THEN Return(t, last, "ok") ELSE Panic(t, last)
    /\ UNCHANGED <<files, current_file, debug_assertions, accepted,
                   closed_after_set>>

\* ------------------------------------------------------------- did_change

\* a guard that is a temporary: dropped at the end of its statement
did_change_state_temporary(t) == NoTask

\* `let mut state = self.files.lock().await;`: kept until the handler returns
did_change_state(t) == t

\* the text of the first change of the batch
new_content_first(content_changes) == content_changes[1]

\* the text of the last change of the batch:
\* content_changes.swap_remove(content_changes.len() - 1).text
new_content(content_changes) == content_changes[Len(content_changes)]

\* did_change is called; debug_assert!(content_changes.len() > 0) runs in a
\* debug build
did_change_call(t, uri, content_changes) ==
    /\ Free(t) /\ Room
    /\ IF debug_assertions /\ ~(Len(content_changes) > 0)
       THEN Panic(t, Snapshot(DidChangeTextDocumentParams(
                                 uri, content_changes)))
       ELSE Call(t, DidChangeTextDocumentParams(uri, content_changes))
    /\ UNCHANGED <<files, current_file, sent, debug_assertions, accepted,
                   closed_after_set>>

\* `files` is locked; the handler returns if the Url is not in the store,
\* else the file is overwritten with the last change; an empty batch makes
\* len() - 1 wrap and swap_remove panic; next await: current_file.lock()
did_change_overwrite(t) ==
    /\ ~panicked /\ pc[t] = "files_lock" /\ request[t].kind = "did_change"
    /\ files_lock = NoTask
    /\ UNCHANGED <<current_file, sent, debug_assertions, closed_after_set>>
    /\ IF get_file_mut(files, request[t].uri) = None
       THEN /\ Return(t, Snapshot(request[t]), "ok")
            /\ UNCHANGED <<files, accepted>>
       ELSE IF Len(request[t].content_changes) = 0
       THEN /\ Panic(t, Snapshot(request[t]))
            /\ UNCHANGED <<files, accepted>>
       ELSE /\ files_lock' = did_change_state(t)
            /\ last' = Snapshot(request[t])
            /\ files' = overwrite(files, request[t].uri,
                                  new_content(request[t].content_changes))
            /\ accepted' = Append(accepted,
                   [kind |-> "did_change", uri |-> request[t].uri,
                    text |-> new_content(request[t].content_changes)])
            /\ Suspend(t, "current_file_lock")
            /\ UNCHANGED current_file_lock

\* `current_file` is locked and set; next await: preview_server.lock()
did_change_set_current(t) ==
    /\ ~panicked /\ pc[t] = "current_file_lock"
    /\ request[t].kind = "did_change"
    /\ current_file_lock = NoTask
    /\ current_file_lock' = t
    /\ current_file' = set_current_file(request[t].uri)
    /\ Suspend(t, "preview_lock")
    /\ closed_after_set' = FALSE
    /\ UNCHANGED <<files, sent, files_lock, debug_assertions, accepted, last>>

\* the preview is locked for the statement, new_content is sent, the result
\* is unwrapped with expect, and the handler returns
did_change_send(t) ==
    /\ ~panicked /\ pc[t] = "preview_lock" /\ request[t].kind = "did_change"
    /\ \E ok \in BOOLEAN :
          /\ sent' = send(new_content(request[t].content_changes), ok)
          /\ IF ok THEN Return(t, last, "ok") ELSE Panic(t, last)
    /\ UNCHANGED <<files, current_file, debug_assertions, accepted,
                   closed_after_set>>

\* -------------------------------------------------------------- did_close

\* did_close is called
did_close_call(t, uri) ==
    /\ Free(t)
    /\ Call(t, DidCloseTextDocumentParams(uri))
    /\ UNCHANGED <<files, current_file, sent, debug_assertions, accepted,
                   last, closed_after_set>>

\* a did_close that also clears the pointer when it names the closed Url
did_close_remove_and_clear(t) ==
    /\ ~panicked /\ pc[t] = "files_lock" /\ request[t].kind = "did_close"
    /\ files_lock = NoTask
    /\ files' = remove_file(files, request[t].uri)
    /\ Return(t, Snapshot(request[t]), "ok")
    /\ current_file' =
           IF current_file = Some(request[t].uri) THEN None ELSE current_file
    /\ closed_after_set' =
           IF current_file = Some(request[t].uri) THEN TRUE
           ELSE closed_after_set
    /\ UNCHANGED <<sent, debug_assertions, accepted>>

\* `files` is locked, remove_file runs and the handler returns
did_close_remove(t) ==
    /\ ~panicked /\ pc[t] = "files_lock" /\ request[t].kind = "did_close"
    /\ files_lock = NoTask
    /\ files' = remove_file(files, request[t].uri)
    /\ Return(t, Snapshot(request[t]), "ok")
    /\ closed_after_set' =
           IF current_file = Some(request[t].uri) THEN TRUE
           ELSE closed_after_set
    /\ UNCHANGED <<current_file, sent, debug_assertions, accepted>>

\* ------------------------------------------------------------- completion

\* completion is called
completion_call(t, uri, line, character) ==
    /\ Free(t)
    /\ Call(t, CompletionParams(uri, line, character))
    /\ UNCHANGED <<files, current_file, sent, debug_assertions, accepted,
                   last, closed_after_set>>

\* `files` is locked; an unknown Url and a line out of range are answered
\* with InvalidParams, a character offset that cannot be sliced panics;
\* next await: client.log_message(), which is given the current word
completion_get_file(t) ==
    /\ ~panicked /\ pc[t] = "files_lock" /\ request[t].kind = "completion"
    /\ files_lock = NoTask
    /\ UNCHANGED <<files, current_file, sent, debug_assertions, accepted,
                   closed_after_set>>
    /\ IF get_file(files, request[t].uri) = None
       THEN Return(t, Snapshot(request[t]), "InvalidParams")
       ELSE LET current_word ==
                    get_current_word(files[request[t].uri], request[t].line,
                                     request[t].character)
            IN  CASE current_word.tag = "None" ->
                        Return(t, Snapshot(request[t]), "InvalidParams")
                  [] current_word.tag = "panic" ->
                        Panic(t, Snapshot(request[t]))
                  [] OTHER ->
                        /\ files_lock' = t
                        /\ last' = [Snapshot(request[t]) EXCEPT
                                       !.log = Some(current_word.word)]
                        /\ Suspend(t, "log_message")
                        /\ UNCHANGED current_file_lock

\* the word at the request's position in the text of the active document
current_word_of_active(t) ==
    LET active == IF current_file = None \/ ~(current_file \subseteq DOMAIN files)
                  THEN <<>>
                  ELSE files[CHOOSE u \in current_file : TRUE]
        found  == get_current_word(active, request[t].line,
                                   request[t].character)
    IN  IF found.tag = "Some" THEN found.word ELSE <<>>

\* the word the handler holds while it waits for log_message; the store is
\* locked, so it is still the word of the stored text
current_word_of(t) ==
    get_current_word(files[request[t].uri], request[t].line,
                     request[t].character).word

\* log_message has returned; without the trigger the answer is Ok(None),
\* with it the next await is current_file.lock()
completion_log_message(t) ==
    /\ ~panicked /\ pc[t] = "log_message" /\ request[t].kind = "completion"
    /\ IF trigger(current_word_of(t))
       THEN /\ Suspend(t, "current_file_lock")
            /\ UNCHANGED <<files_lock, current_file_lock, last>>
       ELSE Return(t, last, "None")
    /\ UNCHANGED <<files, current_file, sent, debug_assertions, accepted,
                   closed_after_set>>

\* `current_file` is locked for the statement and cloned; no active document
\* and a path without parent are answered with InternalError, else the
\* markdown files under the parent are listed
completion_list(t) ==
    /\ ~panicked /\ pc[t] = "current_file_lock"
    /\ request[t].kind = "completion"
    /\ current_file_lock = NoTask
    /\ IF current_file = None
       THEN Return(t, last, "InternalError")
       ELSE LET current_path == CHOOSE u \in current_file : TRUE
            IN  IF path_parent(current_path) = None
                THEN Return(t, last, "InternalError")
                ELSE Return(t, [last EXCEPT !.response =
                                   Some(CompletionList(completion_items(
                                       CHOOSE d \in path_parent(current_path) :
                                           TRUE)))],
                            "List")
    /\ UNCHANGED <<files, current_file, sent, debug_assertions, accepted,
                   closed_after_set>>

\* ------------------------------------------- initialize, goto_definition

\* initialize is called and runs to `self.preview_server.lock().await`
initialize_call(t) ==
    /\ Free(t)
    /\ pc' = [pc EXCEPT ![t] = "preview_lock"]
    /\ request' = [request EXCEPT ![t] = InitializeParams]
    /\ UNCHANGED <<files, current_file, sent, files_lock, current_file_lock,
                   panicked, debug_assertions, last, accepted,
                   closed_after_set>>

\* the preview is locked, the theme is set and the browser is opened; a
\* browser that cannot be opened is answered with InternalError, else the
\* capabilities are returned; the transport stays as it was either way
initialize_open_browser(t) ==
    /\ ~panicked /\ pc[t] = "preview_lock" /\ request[t].kind = "initialize"
    /\ \E ok \in BOOLEAN :
          Return(t, Snapshot(request[t]), IF ok THEN "ok" ELSE "InternalError")
    /\ UNCHANGED <<files, current_file, sent, debug_assertions, accepted,
                   closed_after_set>>

\* goto_definition is called: its body is todo!(), which panics
goto_definition(t) ==
    /\ Free(t)
    /\ Panic(t, Snapshot(GotoDefinitionParams))
    /\ UNCHANGED <<files, current_file, sent, debug_assertions, accepted,
                   closed_after_set>>

\* ----------------------------------------------- get_current_file_contents

\* the call of get_current_file_contents, which takes &self only
GetCurrentFileContents ==
    [NoRequest EXCEPT !.kind = "get_current_file_contents"]

\* get_current_file_contents is called and runs to
\* `self.current_file.lock().await`
get_current_file_contents_call(t) ==
    /\ Free(t)
    /\ pc' = [pc EXCEPT ![t] = "current_file_lock"]
    /\ request' = [request EXCEPT ![t] = GetCurrentFileContents]
    /\ UNCHANGED <<files, current_file, sent, files_lock, current_file_lock,
                   panicked, debug_assertions, last, accepted,
                   closed_after_set>>

\* `let current_file = self.current_file.lock().await;`: the guard is bound
\* to a variable, so the task keeps the lock until the function returns;
\* `current_file.clone()?` returns None without an active document (the
\* guard is dropped, and no handler's record in `last` is touched), else
\* the clone c2 is kept and the next await is files.lock()
get_current_file_contents_clone(t) ==
    /\ ~panicked /\ pc[t] = "current_file_lock"
    /\ request[t].kind = "get_current_file_contents"
    /\ current_file_lock = NoTask
    /\ IF current_file = None
       THEN /\ pc' = [pc EXCEPT ![t] = "idle"]
            /\ request' = [request EXCEPT ![t] = NoRequest]
            /\ UNCHANGED current_file_lock
       ELSE /\ current_file_lock' = t
            /\ pc' = [pc EXCEPT ![t] = "files_lock"]
            /\ request' = [request EXCEPT
                               ![t].uri = CHOOSE c2 \in current_file : TRUE]
    /\ UNCHANGED <<files, current_file, sent, files_lock, panicked,
                   debug_assertions, last, accepted, closed_after_set>>

\* `let lock = self.files.lock().await;`: `lock.get_file(&c2)?` returns None
\* when c2 is not in the store, else the clone of its File is returned; both
\* guards are dropped at the return
get_current_file_contents_get_file(t) ==
    /\ ~panicked /\ pc[t] = "files_lock"
    /\ request[t].kind = "get_current_file_contents"
    /\ files_lock = NoTask
    /\ LET c == get_file(files, request[t].uri)
       IN  Return(t, [Snapshot(request[t]) EXCEPT !.response = c],
                  IF c = None THEN "None" ELSE "Some")
    /\ UNCHANGED <<files, current_file, sent, debug_assertions, accepted,
                   closed_after_set>>

\* ------------------------------------------------------ the specification

Next ==
    \/ \E t \in Tasks, uri \in Uris, text \in Texts : did_open_call(t, uri, text)
    \/ \E t \in Tasks : did_open_add_file(t)
    \/ \E t \in Tasks : did_open_set_current(t)
    \/ \E t \in Tasks : did_open_send(t)
    \/ \E t \in Tasks, uri \in Uris, content_changes \in Batches :
          did_change_call(t, uri, content_changes)
    \/ \E t \in Tasks : did_change_overwrite(t)
    \/ \E t \in Tasks : did_change_set_current(t)
    \/ \E t \in Tasks : did_change_send(t)
    \/ \E t \in Tasks, uri \in Uris : did_close_call(t, uri)
    \/ \E t \in Tasks : did_close_remove(t)
    \/ \E t \in Tasks, uri \in Uris, line \in 0..MaxLine,
          character \in 0..MaxChar : completion_call(t, uri, line, character)
    \/ \E t \in Tasks : completion_get_file(t)
    \/ \E t \in Tasks : completion_log_message(t)
    \/ \E t \in Tasks : completion_list(t)

Spec == Init /\ [][Next]_vars

\* ------------------------------------------------- the serial specification

\* One client that sends its next message when the last one is answered:
\* every handler runs alone, on task 1.  The documents, Urls and positions
\* are richer than those of Spec.  A completion reads the state and changes
\* none of it, so a serial run is followed up to its first completion: what
\* can follow that completion can follow the run without it.

\* most store mutations of one serial run
SerialMaxSent == 2

\* largest line index and character offset of a serial completion request
SerialMaxLine == 2

SerialMaxChar == 5

\* "file:///", "file:///a.md" and "file:///d.md/e.md"
SerialUris == {<<>>, <<a_md>>, <<d_md, e_md>>}

\* "a [[]", "éé" (two chars of two bytes) and "x\n[["
Docs == { <<"a", " ", "[", "[", "]">>,
          <<"é", "é">>,
          <<"x", "\n", "[", "[">> }

\* the client sends its next message
SerialReady == last.request.kind # "completion"

\* the client sends a message that changes the store
SerialRoom == SerialReady /\ Len(accepted) < SerialMaxSent

SerialNext ==
    \/ \E uri \in SerialUris, text \in Docs :
          SerialRoom /\ did_open_call(1, uri, text)
    \/ did_open_add_file(1)
    \/ did_open_set_current(1)
    \/ did_open_send(1)
    \/ \E uri \in SerialUris, text \in Docs :
          SerialRoom /\ did_change_call(1, uri, <<text>>)
    \/ did_change_overwrite(1)
    \/ did_change_set_current(1)
    \/ did_change_send(1)
    \/ \E uri \in SerialUris : SerialReady /\ did_close_call(1, uri)
    \/ did_close_remove(1)
    \/ \E uri \in SerialUris, line \in 0..SerialMaxLine,
          character \in 0..SerialMaxChar :
          SerialReady /\ completion_call(1, uri, line, character)
    \/ completion_get_file(1)
    \/ completion_log_message(1)
    \/ completion_list(1)
    \/ SerialReady /\ initialize_call(1)
    \/ initialize_open_browser(1)
    \/ SerialReady /\ goto_definition(1)

SerialSpec == Init /\ [][SerialNext]_vars

\* --------------------------------------------------- the fair specification

\* The handlers of initialize, did_open, did_change, did_close and
\* completion on all tasks, for one document and one position (the word at
\* it opens a link, so completion goes on to lock current_file), under the
\* scheduling of the runtime: a tokio Mutex hands the lock to its waiters in
\* the order they asked (strong fairness of a step that needs a lock), and a
\* task that can run is polled.

LockUri == <<a_md>>

LockText == <<"[", "[">>

\* the step of task t after an await, whichever handler it is in
Step(t) ==
    \/ did_open_add_file(t) \/ did_open_set_current(t) \/ did_open_send(t)
    \/ did_change_overwrite(t) \/ did_change_set_current(t)
    \/ did_change_send(t)
    \/ did_close_remove(t)
    \/ completion_get_file(t) \/ completion_log_message(t)
    \/ completion_list(t)
    \/ initialize_open_browser(t)

LockNext ==
    \/ \E t \in Tasks : did_open_call(t, LockUri, LockText)
    \/ \E t \in Tasks : did_change_call(t, LockUri, <<LockText>>)
    \/ \E t \in Tasks : did_close_call(t, LockUri)
    \/ \E t \in Tasks : completion_call(t, LockUri, 0, Len(LockText))
    \/ \E t \in Tasks : initialize_call(t)
    \/ \E t \in Tasks : Step(t)

LockSpec ==
    Init /\ [][LockNext]_vars /\ \A t \in Tasks : SF_vars(Step(t))

\* ------------------------------------------------ the helper's specification

\* get_current_file_contents has no caller in main.rs.  This specification
\* runs it as a call any task can make, beside the handlers of LockSpec on
\* the same document and position.

ContentsNext ==
    \/ LockNext
    \/ \E t \in Tasks : get_current_file_contents_call(t)
    \/ \E t \in Tasks : get_current_file_contents_clone(t)
    \/ \E t \in Tasks : get_current_file_contents_get_file(t)

ContentsSpec == Init /\ [][ContentsNext]_vars

\* ------------------------------------------------------------- the claims

\* `last` describes the handler that started to act most recently: its
\* parameters, the store, pointer and pushes it found, and its outcome
\* ("running" until it ends).  A formula that compares the state with `last`
\* of a returned handler speaks of the states from that return to the next
\* handler's first step.

\* the last handler was a `kind` call and has returned
Returned(kind) == last.request.kind = kind /\ last.outcome = "ok"

\* the store maps the same Urls to the same texts in fs and gs, but for uri
SameButFor(fs, gs, uri) ==
    \A v \in Uris \ {uri} :
        /\ v \in DOMAIN fs <=> v \in DOMAIN gs
        /\ v \in DOMAIN fs => fs[v] = gs[v]

\* task t handles a did_open or did_change that has changed the store and
\* has not returned
InHandler(t) ==
    /\ request[t].kind \in {"did_open", "did_change"}
    /\ pc[t] \in {"current_file_lock", "preview_lock"}

\* the text the did_open or did_change of `params` stores and pushes
TextOf(params) ==
    IF params.kind = "did_open" THEN params.text
    ELSE params.content_changes[Len(params.content_changes)]

\* C1: once did_open(u, C) has returned, the store maps u to C, whether u
\* was absent or present before, and every other Url's entry is as the
\* handler found it.
C1_did_open_stores ==
    Returned("did_open") =>
        /\ last.request.uri \in DOMAIN files
        /\ files[last.request.uri] = last.request.text
        /\ SameButFor(files, last.files, last.request.uri)

\* C1 witness: a did_open has returned that overwrote a different text of
\* its Url, with another Url in the store.
C1_witness ==
    /\ Returned("did_open")
    /\ last.request.uri \in DOMAIN last.files
    /\ last.files[last.request.uri] # last.request.text
    /\ files[last.request.uri] = last.request.text
    /\ DOMAIN files = Uris

\* C2: once did_change(u, edits) with a non-empty batch has returned for a
\* Url that was in the store, the stored text of u is the text of the last
\* edit of the batch, whatever the text before and the earlier edits, and
\* every other entry is as the handler found it.
C2_did_change_last_edit ==
    ( /\ Returned("did_change")
      /\ last.request.uri \in DOMAIN last.files
      /\ Len(last.request.content_changes) > 0 ) =>
        /\ last.request.uri \in DOMAIN files
        /\ files[last.request.uri] =
               last.request.content_changes[Len(last.request.content_changes)]
        /\ SameButFor(files, last.files, last.request.uri)

\* C2 witness: a did_change with a batch of two different texts has returned;
\* the text stored before was the first of the batch, the text stored now is
\* the second.
C2_witness ==
    /\ Returned("did_change")
    /\ Len(last.request.content_changes) = 2
    /\ last.request.content_changes[1] # last.request.content_changes[2]
    /\ last.request.uri \in DOMAIN last.files
    /\ last.files[last.request.uri] = last.request.content_changes[1]
    /\ files[last.request.uri] = last.request.content_changes[2]

\* the last handler was a did_change for a Url that was not in the store,
\* and it has ended
ChangeOfUnknown ==
    /\ last.request.kind = "did_change"
    /\ last.request.uri \notin DOMAIN last.files
    /\ last.outcome # "running"

\* the handler left the store, the pointer and the pushes as it found them
\* and returned
NoOp ==
    /\ last.outcome = "ok"
    /\ files = last.files
    /\ current_file = last.current_file
    /\ sent = last.sent

C4_did_close_removes ==
    /\ last.request.kind = "did_close" => last.outcome = "ok"
    /\ Returned("did_close") =>
          /\ last.request.uri \notin DOMAIN files
          /\ SameButFor(files, last.files, last.request.uri)
          /\ last.request.uri \notin DOMAIN last.files => files = last.files
    /\ ( /\ last.request.kind = "completion"
         /\ last.request.uri \notin DOMAIN last.files ) =>
          last.outcome = "InvalidParams"

\* C4 witness: a did_close has returned that removed its Url and left the
\* other document in the store.
C4_witness ==
    /\ Returned("did_close")
    /\ last.request.uri \in DOMAIN last.files
    /\ last.request.uri \notin DOMAIN files
    /\ files # EmptyFiles

\* the store mutations recorded so far, as the texts they stored
AcceptedTexts(log) == [i \in 1..Len(log) |-> log[i].text]

\* task t waits for the `files` lock with a did_open, did_change or
\* did_close of a Url other than uri
WaitsToMutateOther(t, uri) ==
    /\ pc[t] = "files_lock"
    /\ request[t].kind \in {"did_open", "did_change", "did_close"}
    /\ request[t].uri # uri

\* the step in which task t changes the store
StoreMutation(t) ==
    did_open_add_file(t) \/ did_change_overwrite(t) \/ did_close_remove(t)

\* C5 as stated: the handler is only piecewise atomic: while one handler is
\* between its store mutation and its pointer set or preview push, the store
\* mutation of a waiting handler for a different document can take place.
C5_original ==
    \A t, o \in Tasks :
        (InHandler(t) /\ WaitsToMutateOther(o, request[t].uri)) =>
            ENABLED StoreMutation(o)

\* C5 as amended: a did_open or did_change keeps the `files` lock from its
\* store mutation until it returns, so no store mutation of another handler
\* comes between its three steps: while it is between them its own mutation
\* is the latest one, the store holds its text, and, once the pointer is
\* set, the pointer names its Url; what it then pushes is that text.
C5_handler_atomic ==
    /\ \A t \in Tasks :
          InHandler(t) =>
              /\ files_lock = t
              /\ accepted # <<>>
              /\ accepted[Len(accepted)].uri = request[t].uri
              /\ accepted[Len(accepted)].text = TextOf(request[t])
              /\ request[t].uri \in DOMAIN files
              /\ files[request[t].uri] = TextOf(request[t])
              /\ pc[t] = "preview_lock" =>
                    current_file = Some(request[t].uri)
    /\ \A kind \in {"did_open", "did_change"} :
          (Returned(kind) /\ Len(sent) > Len(last.sent)) =>
              /\ sent[Len(sent)] = accepted[Len(accepted)].text
              /\ accepted[Len(accepted)].uri = last.request.uri

\* C5 witness: a handler has changed the store and set the pointer and is
\* about to push, while a handler for the other document waits for the
\* store.
C5_witness ==
    \E t, o \in Tasks :
        /\ InHandler(t) /\ pc[t] = "preview_lock"
        /\ WaitsToMutateOther(o, request[t].uri)

\* C6: as long as no handler has panicked, the pushes the preview received
\* are the store mutations made so far, text by text and in the same order,
\* less the one mutation whose handler has not pushed yet: none is dropped,
\* duplicated or reordered.
C6_pushes_follow_mutations ==
    ~panicked =>
        IF \E t \in Tasks : InHandler(t)
        THEN /\ accepted # <<>>
             /\ sent = AcceptedTexts(SubSeq(accepted, 1, Len(accepted) - 1))
        ELSE sent = AcceptedTexts(accepted)

\* C6 witness: two did_change of the same document with different texts
\* have been stored and pushed, while a call for the other document waits.
C6_witness ==
    /\ ~panicked
    /\ Len(sent) = 3
    /\ accepted[2].kind = "did_change" /\ accepted[3].kind = "did_change"
    /\ accepted[2].uri = accepted[3].uri
    /\ accepted[2].text # accepted[3].text
    /\ sent[2] = accepted[2].text /\ sent[3] = accepted[3].text
    /\ \E o \in Tasks : pc[o] = "files_lock" /\ request[o].uri # accepted[3].uri

\* the Urls did_open has added to the store
EverOpened ==
    {accepted[i].uri : i \in {j \in 1..Len(accepted) :
                                  accepted[j].kind = "did_open"}}

\* C7: the Url the pointer holds is in the store, or a did_close of it ran
\* after the pointer was last set; it is never a Url that was never opened.
C7_pointer_live_or_closed ==
    \A u \in current_file :
        /\ u \in DOMAIN files \/ closed_after_set
        /\ u \in EverOpened

\* C7 witness: the pointer holds a Url that has been closed, while another
\* document is open.
C7_witness ==
    /\ current_file # None
    /\ \A u \in current_file : u \notin DOMAIN files
    /\ files # EmptyFiles

\* C8: once a did_open(u), or a did_change(u) that found u in the store,
\* has returned, the pointer holds u.
C8_pointer_is_own_uri ==
    ( \/ Returned("did_open")
      \/ Returned("did_change") /\ last.request.uri \in DOMAIN last.files ) =>
        current_file = Some(last.request.uri)

\* C8 witness: such a handler has returned that found the pointer on the
\* other document, while another call was in flight.
C8_witness ==
    /\ Returned("did_open") \/ Returned("did_change")
    /\ last.request.uri \in DOMAIN files
    /\ last.current_file # None
    /\ last.current_file # Some(last.request.uri)
    /\ current_file = Some(last.request.uri)
    /\ \E o \in Tasks : pc[o] = "files_lock"

\* C9: did_close leaves the pointer and the pushes as it found them, also
\* when it closes the document the pointer names.
C9_did_close_keeps_pointer ==
    Returned("did_close") =>
        /\ current_file = last.current_file
        /\ sent = last.sent

\* C9 witness: the active document has been closed: the pointer still holds
\* its Url, and the pushes are the ones made before.
C9_witness ==
    /\ Returned("did_close")
    /\ last.current_file = Some(last.request.uri)
    /\ last.request.uri \in DOMAIN last.files
    /\ last.request.uri \notin DOMAIN files
    /\ current_file = Some(last.request.uri)
    /\ sent # <<>>

\* the last handler was a completion that found no active document, and it
\* has ended
CompletionWithoutActive ==
    /\ last.request.kind = "completion"
    /\ last.current_file = None
    /\ last.outcome # "running"

\* C10 as stated: a completion handled while the pointer is none is
\* answered with InternalError.
C10_original == CompletionWithoutActive => last.outcome = "InternalError"

\* C10 as amended: a completion handled while the pointer is none is
\* answered with InvalidParams: the store is empty then, so the lookup of
\* the request's Url fails before the pointer is read.
C10_no_active_invalid_params ==
    CompletionWithoutActive =>
        /\ last.files = EmptyFiles
        /\ last.outcome = "InvalidParams"

\* C10 witness: a completion has been answered while the pointer was none.
C10_witness ==
    /\ CompletionWithoutActive
    /\ current_file = None
    /\ last.outcome = "InvalidParams"

\* ------------------------------------------- the claims on the serial runs

\* the last handler was a completion for a Url that was in the store, and
\* it has ended
CompletionOfOpen ==
    /\ last.request.kind = "completion"
    /\ last.request.uri \in DOMAIN last.files
    /\ last.outcome # "running"

\* the text of the document the last request names, as the handler found it
RequestText == last.files[last.request.uri]

\* the position does not exist in the text: there is no such line, or the
\* line has fewer chars than the offset
Malformed(text, line, character) ==
    \/ line >= Len(lines(text))
    \/ character > Len(lines(text)[line + 1])

\* C11 as stated: a completion for an open document with a line index past
\* the last line or a character offset past the end of the line is answered
\* with InvalidParams: never with an absent result, never by a panic.
C11_original ==
    ( /\ CompletionOfOpen
      /\ Malformed(RequestText, last.request.line, last.request.character) ) =>
        last.outcome = "InvalidParams"

\* C12 as stated: a goto_definition request is answered with a "not
\* implemented" error; handling it does not end the serving task, which can
\* take further requests afterwards.
C12_original ==
    last.request.kind = "goto_definition" =>
        /\ last.outcome = "Unimplemented"
        /\ ~panicked
        /\ \E t \in Tasks : Free(t)

\* the last call ended in a panic on a failure of the preview transport:
\* the bind in `new`, or the send of a did_open or of a did_change that had
\* stored its text
PreviewFailurePanic ==
    /\ last.outcome = "panic"
    /\ \/ last.request.kind \in {"new", "did_open"}
       \/ /\ last.request.kind = "did_change"
          /\ last.request.uri \in DOMAIN last.files
          /\ Len(last.request.content_changes) > 0

\* C13 as stated: no failure of the preview transport ends the server: not
\* the bind at construction, not the browser launch of initialize, not a
\* failed push of did_open or did_change, after which the handler completes
\* and later events are processed.
C13_original ==
    /\ ~PreviewFailurePanic
    /\ last.request.kind = "initialize" => ~panicked
    /\ ( /\ last.request.kind \in {"did_open", "did_change"}
         /\ last.outcome \notin {"running", "ok"} ) => \E t \in Tasks : Free(t)

\* the longest run of chars without whitespace that ends right before the
\* char offset `character` of `line`
WordBefore(line, character) ==
    LET starts == {i \in 0..character :
                      \A j \in (i + 1)..character : ~is_whitespace(line[j])}
        start  == CHOOSE i \in starts : \A k \in starts : i <= k
    IN  SubSeq(line, start + 1, character)

\* the word at the cursor of the last request, for a position that exists
CursorWord ==
    WordBefore(lines(RequestText)[last.request.line + 1],
               last.request.character)

\* the word starts with "[[" and does not end with "]"
OpensLink(word) ==
    /\ Len(word) >= 2
    /\ SubSeq(word, 1, 2) = <<"[", "[">>
    /\ word[Len(word)] # "]"

\* the last handler was a completion for a Url that was in the store and a
\* position that exists in its text, and it has ended
CompletionAtPosition ==
    /\ CompletionOfOpen
    /\ ~Malformed(RequestText, last.request.line, last.request.character)

\* C14 as stated: a completion for an open document and a position that
\* exists is answered with a list if and only if the word at the cursor
\* starts with "[[" and does not end with "]"; otherwise with the absent
\* result; never with an error.
C14_original ==
    CompletionAtPosition =>
        last.outcome = IF OpensLink(CursorWord) THEN "List" ELSE "None"

\* the last handler was a completion for a Url that was in the store; it
\* has called get_current_word on its text
WordTaken ==
    /\ last.request.kind = "completion"
    /\ last.request.uri \in DOMAIN last.files

\* C15 as stated: for every document, get_current_word returns None when
\* the line index is out of range and, for every line that exists and every
\* character offset within it, the longest run without whitespace that ends
\* at the offset (the word the handler logs).
C15_original ==
    WordTaken =>
        IF last.request.line >= Len(lines(RequestText))
        THEN last.log = None /\ last.outcome = "InvalidParams"
        ELSE ~Malformed(RequestText, last.request.line,
                        last.request.character) =>
                 last.log = Some(CursorWord)

\* the file name ends in ".md"
IsMarkdownName(name) ==
    Len(name) >= 3 /\ SubSeq(name, Len(name) - 2, Len(name)) = <<".", "m", "d">>

\* the markdown files at any depth below the directory dir that can be
\* reached from it through directories that can be read
MarkdownFilesBelow(dir) ==
    { e \in Disk :
         /\ ~e.is_dir
         /\ Len(e.path) > Len(dir)
         /\ SubSeq(e.path, 1, Len(dir)) = dir
         /\ IsMarkdownName(e.path[Len(e.path)])
         /\ \A n \in Len(dir)..(Len(e.path) - 1) :
                \E d \in Disk :
                    d.path = SubSeq(e.path, 1, n) /\ d.is_dir /\ d.readable }

\* the directory of the active document the last handler found
ActiveParent ==
    LET current_path == CHOOSE u \in last.current_file : TRUE
    IN  SubSeq(current_path, 1, Len(current_path) - 1)

\* the last handler was a completion that returned a list
ListReturned == last.request.kind = "completion" /\ last.outcome = "List"

\* C16 as stated: the list a completion returns is not incomplete and holds
\* exactly one item per readable markdown file at any depth below the parent
\* directory of the active document, the active document's own file
\* included, labelled with its path relative to that directory, of kind
\* FILE; other files and unreadable entries give no item.
C16_original ==
    ListReturned =>
        last.response =
            Some([is_incomplete |-> FALSE,
                  items |-> { [label |-> SubSeq(e.path, Len(ActiveParent) + 1,
                                                Len(e.path)),
                               kind |-> "FILE"] :
                                 e \in MarkdownFilesBelow(ActiveParent) }])

\* w is a piece of `line` that ends at the byte offset `character`
EndsAtCursor(w, line, character) ==
    \E k \in 0..Len(line) :
        /\ byte_len(SubSeq(line, 1, k)) = character
        /\ Len(w) <= k
        /\ w = SubSeq(line, k - Len(w) + 1, k)

\* the paths of the entries with a markdown name, files or not, found at or
\* below dir through directories that can be read, relative to dir
MarkdownNamesFrom(dir) ==
    { SubSeq(e.path, Len(dir) + 1, Len(e.path)) :
        e \in { x \in Disk :
                  /\ Len(x.path) >= Len(dir)
                  /\ SubSeq(x.path, 1, Len(dir)) = dir
                  /\ x.path # <<>>
                  /\ IsMarkdownName(x.path[Len(x.path)])
                  /\ \A n \in Len(dir)..(Len(x.path) - 1) :
                         \E d \in Disk : /\ d.path = SubSeq(x.path, 1, n)
                                         /\ d.is_dir /\ d.readable } }

\* C17: a completion takes its word from the text of the document the
\* request names: the word it logs is a piece of that document's line ending
\* at the cursor, and this word alone decides whether it looks for
\* candidates.  The pointer gives the directory only: with a word that opens
\* a link the answer is the list of the entries with a markdown name found
\* from the parent directory of the pointer's Url (InternalError when that
\* Url has no parent), whether or not the pointer names the requested
\* document and whether or not its document is still in the store.
C17_pointer_is_directory_hint ==
    (WordTaken /\ last.log # None) =>
        LET word == CHOOSE w \in last.log : TRUE
        IN  /\ EndsAtCursor(word,
                            lines(RequestText)[last.request.line + 1],
                            last.request.character)
            /\ last.outcome # "running" =>
                  /\ last.outcome \notin {"panic", "InvalidParams"}
                  /\ last.outcome = "None" <=> ~OpensLink(word)
                  /\ last.outcome = "InternalError" <=>
                         (OpensLink(word) /\ last.current_file = Some(<<>>))
                  /\ last.outcome = "List" =>
                         /\ last.response # None
                         /\ \A r \in last.response :
                                {i.label : i \in r.items} =
                                    MarkdownNamesFrom(ActiveParent)

\* C17 witness: a list has been returned for a document whose word opens a
\* link, while the pointer named another document, which had been closed
\* and whose directory is not the one of the requested document.
C17_witness ==
    /\ ListReturned
    /\ last.current_file # Some(last.request.uri)
    /\ ~(last.current_file \subseteq DOMAIN last.files)
    /\ ActiveParent # SubSeq(last.request.uri, 1, Len(last.request.uri) - 1)
    /\ \A r \in last.response : r.items # {}

\* --------------------------------------- the claims on the concurrent runs

\* the store can be looked at: its lock is free, or held by a completion
StoreObservable ==
    \/ files_lock = NoTask
    \/ \E t \in Tasks : files_lock = t /\ request[t].kind = "completion"

\* C18: whenever the store lock is free, and so in every state a completion
\* handler looks at, a store that is not empty comes with a pointer that is
\* not none; a pointer that is set never returns to none; so a completion
\* that found its Url in the store never answers InternalError for a
\* missing active document: when it answers InternalError, the pointer is
\* set (and its path has no parent).
C18_store_implies_pointer ==
    /\ [](StoreObservable /\ files # EmptyFiles => current_file # None)
    /\ [][current_file # None => current_file' # None]_vars
    /\ []( ( /\ last.request.kind = "completion"
             /\ last.request.uri \in DOMAIN last.files
             /\ last.outcome = "InternalError" ) =>
               /\ last.current_file # None
               /\ \A u \in last.current_file : path_parent(u) = None )

\* C18 witness: a completion that found its Url in the store has answered
\* InternalError, with the pointer set; the store lock is free again and
\* another document has been closed in between.
C18_witness ==
    /\ last.request.kind = "completion"
    /\ last.request.uri \in DOMAIN last.files
    /\ last.outcome = "InternalError"
    /\ files_lock = NoTask
    /\ files # EmptyFiles
    /\ current_file # None
    /\ ~(current_file \subseteq DOMAIN files)

\* C19: whenever no did_open or did_change is between its store mutation
\* and its return (and the server is alive), a pointer that names a Url of
\* the store comes with a last push that is that document's stored text.
C19_preview_shows_active ==
    (~panicked /\ \A t \in Tasks : ~InHandler(t)) =>
        \A u \in current_file :
            u \in DOMAIN files =>
                sent # <<>> /\ sent[Len(sent)] = files[u]

\* C19 witness: both documents are open with different texts, the pointer
\* names the one that was changed last, the third push is its text, and a
\* call of another task waits for the store.
C19_witness ==
    /\ ~panicked /\ \A t \in Tasks : ~InHandler(t)
    /\ DOMAIN files = Uris
    /\ \E u \in current_file, v \in Uris :
          /\ files[u] # files[v]
          /\ Len(sent) = 3 /\ sent[3] = files[u] /\ sent[2] = files[v]
          /\ accepted[3].kind = "did_change"
    /\ \E o \in Tasks : pc[o] = "files_lock"

\* ------------------------------------------------- the claims on the locks

\* the lock task t waits for, "none" when it waits for no lock
WaitsFor(t) ==
    IF pc[t] \in {"files_lock", "current_file_lock", "preview_lock"}
    THEN pc[t] ELSE "none"

\* the locks task t holds while it is suspended; the guard of
\* preview_server is taken and dropped within one step, in every handler
Holds(t) ==
    {l \in {"files_lock"} : files_lock = t}
        \cup {l \in {"current_file_lock"} : current_file_lock = t}

\* the place of a lock in the order files, current_file, preview_server
LockRank(l) ==
    CASE l = "files_lock" -> 1
      [] l = "current_file_lock" -> 2
      [] l = "preview_lock" -> 3

\* every lock a task holds comes before the lock it waits for
LockOrder ==
    \A t \in Tasks :
        WaitsFor(t) # "none" =>
            \A l \in Holds(t) : LockRank(l) < LockRank(WaitsFor(t))

\* no two tasks wait for a lock the other holds (with the tasks of the
\* model, every cycle of waiting tasks holds such a pair or a task that waits
\* for itself)
NoWaitCycle ==
    \A t, o \in Tasks :
        ~(WaitsFor(t) \in Holds(o) /\ WaitsFor(o) \in Holds(t))

\* C20 as stated: the handlers take the locks in the order files,
\* current_file, preview_server only, so no tasks ever wait for each other's
\* locks in a cycle, and under fair scheduling every handler that has
\* started completes in the end, having released all its locks.
C20_original ==
    /\ [](LockOrder /\ NoWaitCycle)
    /\ \A t \in Tasks :
          pc[t] # "idle" ~> (pc[t] = "idle" /\ Holds(t) = {})

\* task t holds the current_file lock and waits for the files lock while
\* task o holds the files lock and waits for the current_file lock
CrossedLocks(t, o) ==
    /\ "current_file_lock" \in Holds(t) /\ WaitsFor(t) = "files_lock"
    /\ "files_lock" \in Holds(o) /\ WaitsFor(o) = "current_file_lock"

\* C21 as stated: get_current_file_contents runs concurrently with did_open,
\* did_change and completion without deadlock: in no reachable state does
\* one task hold the current_file lock while it waits for the files lock and
\* another hold the files lock while it waits for the current_file lock.
C21_original ==
    \A t, o \in Tasks : ~CrossedLocks(t, o)

====
